---- MODULE Spec2Model ----
(***************************************************************************)
(* UCC Accessibility Map: the accessibility scoring engine                 *)
(* (AccessibilityScorer: haversine, routePassesNear, scoreRoute) and the   *)
(* data it is configured with (ACCESSIBILITY_PROFILES, hazard records).    *)
(*                                                                         *)
(* Geometry.  All points of the model lie on one meridian (equal lng).     *)
(* There dLng = 0, so the haversine formula reduces to R * |dLat|; a       *)
(* latitude is held as the integer number of decimetres of arc north of a  *)
(* reference point, and a distance is an integer number of decimetres.     *)
(* Radii keep the source's unit (metres).                                  *)
(***************************************************************************)
EXTENDS Integers, Sequences, FiniteSets, TLC

VARIABLES
  \* the arguments of scoreRoute and routePassesNear, and what the calls gave
  routeCoords, profileId, hazards, barriers, profiles, pc, result, near, firstResult,
  \* the state of the map page (map.js)
  startPoint, endPoint, startMarker, endMarker, routeLayer, reportingMode,
  pending, status, routeInfo

inputs == <<routeCoords, profileId, hazards, barriers, profiles>>

uiVars == <<startPoint, endPoint, startMarker, endMarker, routeLayer,
            reportingMode, pending, status, routeInfo>>

vars == <<inputs, pc, result, near, firstResult, uiVars>>

(***************************************************************************)
(* Bounds of the model                                                     *)
(***************************************************************************)
MaxRoute == 2
MaxHazards == 2
MaxBarriers == 2
MaxPending == 1

(***************************************************************************)
(* Configuration data                                                      *)
(***************************************************************************)
ACCESSIBILITY_PROFILES ==
  ( "step-free" :>
      [ label |-> "Step-free (wheelchair)",
        penalties |->
          [ steps   |-> [high |-> 50, medium |-> 30, low |-> 15],
            steep   |-> [high |-> 25, medium |-> 15, low |-> 5],
            surface |-> [high |-> 20, medium |-> 10, low |-> 5],
            narrow  |-> [high |-> 25, medium |-> 15, low |-> 5],
            kerb    |-> [high |-> 20, medium |-> 10, low |-> 5] ] ] )
  @@
  ( "gentle-gradient" :>
      [ label |-> "Gentle gradient",
        penalties |->
          [ steps   |-> [high |-> 40, medium |-> 25, low |-> 10],
            steep   |-> [high |-> 35, medium |-> 20, low |-> 10],
            surface |-> [high |-> 10, medium |-> 5,  low |-> 0],
            narrow  |-> [high |-> 5,  medium |-> 0,  low |-> 0],
            kerb    |-> [high |-> 15, medium |-> 10, low |-> 5] ] ] )
  @@
  ( "low-energy" :>
      [ label |-> "Low energy / fatigue",
        penalties |->
          [ steps   |-> [high |-> 30, medium |-> 20, low |-> 10],
            steep   |-> [high |-> 30, medium |-> 20, low |-> 10],
            surface |-> [high |-> 15, medium |-> 10, low |-> 5],
            narrow  |-> [high |-> 5,  medium |-> 0,  low |-> 0],
            kerb    |-> [high |-> 10, medium |-> 5,  low |-> 0] ] ] )

\* A caller-supplied profile table (scoreRoute takes the table as a parameter):
\* a sparse table, with odd penalties and a severity outside high/medium/low.
CALLER_PROFILES ==
  ( "custom" :>
      [ label |-> "Custom",
        penalties |->
          [ steps   |-> [high |-> 51],
            surface |-> [low |-> 20],
            lift    |-> [critical |-> 21] ] ] )

\* Hazard records.  The first four are catalogue records of
\* ACCESSIBILITY_HAZARDS, placed on the model's meridian; the last is a
\* caller-supplied record whose type and severity no shipped table knows.
HazardPool ==
  { [ id |-> "steps-main-quad", type |-> "steps",
      label |-> "Steps at Main Quadrangle",
      lat |-> 0, lng |-> 0, radius |-> 15, severity |-> "high",
      affects |-> {"wheelchair", "step-free"},
      note |-> "Stone steps with no ramp alternative nearby" ],
    [ id |-> "steps-west-wing", type |-> "steps",
      label |-> "Steps at West Wing entrance",
      lat |-> 75, lng |-> 0, radius |-> 12, severity |-> "high",
      affects |-> {"wheelchair", "step-free"},
      note |-> "Use side entrance via Donovan's Road for step-free access" ],
    [ id |-> "gravel-presidents-garden", type |-> "surface",
      label |-> "Gravel path at President's Garden",
      lat |-> 412, lng |-> 0, radius |-> 15, severity |-> "low",
      affects |-> {"wheelchair"},
      note |-> "Loose gravel, passable but slow for wheelchairs" ],
    [ id |-> "kerb-western-road", type |-> "kerb",
      label |-> "Missing kerb drop on Western Road crossing",
      lat |-> 250, lng |-> 0, radius |-> 10, severity |-> "medium",
      affects |-> {"wheelchair", "step-free"},
      note |-> "No dropped kerb on south side of crossing" ],
    [ id |-> "lift-out-of-order", type |-> "lift",
      label |-> "Lift out of order",
      lat |-> 0, lng |-> 0, radius |-> 15, severity |-> "critical",
      affects |-> {"wheelchair"},
      note |-> "Reported by estates" ] }

\* A field a record does not carry (JavaScript undefined), for string fields.
undefined == "<undefined>"

\* User-reported barriers {lat, lng, time, description}; the map UI always
\* stores description '', other callers may give a text or leave it out.
BarrierPool ==
  { [ lat |-> 199, lng |-> 0, time |-> 1001, description |-> "" ],
    [ lat |-> 595, lng |-> 0, time |-> 1002, description |-> "Bins on path" ],
    [ lat |-> 50,  lng |-> 0, time |-> 1003, description |-> undefined ] }

\* Route vertices, GeoJSON order <<lng, lat>>.
Vertices == { <<0, 0>>, <<0, 150>>, <<0, 400>> }

\* Profile ids a caller may pass: the shipped ids, a caller's own id, an id no
\* table has, and an id that names a property every object inherits.
ProfileIds == { "step-free", "gentle-gradient", "low-energy", "custom",
                "nonexistent", "constructor" }

(***************************************************************************)
(* Sequences of inputs                                                     *)
(***************************************************************************)
SeqsUpTo(S, n) == UNION { [1..k -> S] : k \in 0..n }

IsInjective(s) == \A i, j \in DOMAIN s : i # j => s[i] # s[j]

DistinctSeqsUpTo(S, n) == { s \in SeqsUpTo(S, n) : IsInjective(s) }

(***************************************************************************)
(* JavaScript values                                                       *)
(***************************************************************************)
\* Property names every plain object inherits from Object.prototype.
ObjectPrototypeKeys ==
  { "constructor", "hasOwnProperty", "isPrototypeOf", "propertyIsEnumerable",
    "toLocaleString", "toString", "valueOf", "__proto__" }

\* profiles[profileId]: an own property gives the profile object; an inherited
\* one gives a function or object that has no penalties; else undefined.
GetProfile(table, id) ==
  IF id \in DOMAIN table
    THEN [kind |-> "profile", penalties |-> table[id].penalties]
    ELSE IF id \in ObjectPrototypeKeys
           THEN [kind |-> "inherited"]
           ELSE [kind |-> "undefined"]

\* !profile
IsFalsy(profile) == profile.kind = "undefined"

\* The lookup with its two keys swapped: penalties[severity]?.[type] || 0.
PenaltySwapped(profile, hazard) ==
  LET penalties == profile.penalties
  IN  IF hazard.severity \in DOMAIN penalties
        THEN LET row == penalties[hazard.severity]
             IN  IF hazard.type \in DOMAIN row THEN row[hazard.type] ELSE 0
        ELSE 0

\* profile.penalties[hazard.type]?.[hazard.severity] || 0, for a profile that
\* has a penalties table (a missing row or cell is undefined, and
\* undefined || 0 = 0, as is 0 || 0).
PenaltyOf(profile, hazard) ==
  LET penalties == profile.penalties
  IN  IF hazard.type \in DOMAIN penalties
        THEN LET row == penalties[hazard.type]
             IN  IF hazard.severity \in DOMAIN row
                   THEN row[hazard.severity]
                   ELSE 0
        ELSE 0

\* Math.round of a distance held in decimetres, in metres (halves round up).
MathRound(dist) == (dist + 5) \div 10

Max(a, b) == IF a >= b THEN a ELSE b

Min(a, b) == IF a <= b THEN a ELSE b

Abs(x) == IF x < 0 THEN -x ELSE x

(***************************************************************************)
(* haversine, routePassesNear                                              *)
(***************************************************************************)
\* let minDist = Infinity: above every distance of the model.
Infinity == 1000000000

\* Distance between two [lng, lat] points of one meridian, in decimetres.
haversine(coord1, coord2) == Abs(coord2[2] - coord1[2])

\* The test with < in place of <=.
WithinRadiusStrict(dist, hazard) == dist < hazard.radius * 10

\* dist <= hazard.radius (the radius is in metres)
WithinRadius(dist, hazard) == dist <= hazard.radius * 10

\* The loop without its early return: on a hit it reports the least distance
\* over the vertices still to come and those seen.
NearLoopMin(coords, hazard, i, minDist) ==
  LET d(k) == IF coords[k][2] >= hazard.lat THEN coords[k][2] - hazard.lat
                                            ELSE hazard.lat - coords[k][2]
      ds   == { d(k) : k \in i..Len(coords) } \cup { minDist }
      m    == CHOOSE x \in ds : \A y \in ds : x <= y
  IN  [ hit |-> \E k \in i..Len(coords) : WithinRadius(d(k), hazard),
        distance |-> m ]

\* The for-of loop of routePassesNear from vertex i on, minDist so far.
RECURSIVE NearLoop(_, _, _, _)
NearLoop(coords, hazard, i, minDist) ==
  IF i > Len(coords)
    THEN [hit |-> FALSE, distance |-> minDist]
    ELSE LET dist == haversine(coords[i], <<hazard.lng, hazard.lat>>)
             m    == IF dist < minDist THEN dist ELSE minDist
         IN  IF WithinRadius(dist, hazard)
               THEN [hit |-> TRUE, distance |-> dist]
               ELSE NearLoop(coords, hazard, i + 1, m)

\* The matcher with let minDist = 0.
routePassesNearFromZero(coords, hazard) == NearLoop(coords, hazard, 1, 0)

routePassesNear(coords, hazard) == NearLoop(coords, hazard, 1, Infinity)

(***************************************************************************)
(* scoreRoute                                                              *)
(***************************************************************************)
BARRIER_RADIUS == 20
BARRIER_PENALTY == 15

\* The result for a profile id that resolves to nothing.
UnknownProfileResult(id) ==
  [ score |-> -1, level |-> "unknown", color |-> "#9e9e9e",
    warnings |-> << [text |-> "Unknown profile: " \o id, severity |-> "low"] >>,
    hazardsHit |-> << >> ]

\* Locals kept in the closure of the module instead of the call: a call goes
\* on from the score and the lists the call before it left.
InitialLocalsKept ==
  IF result.kind = "return" /\ result.value.score >= 0
    THEN [score |-> result.value.score, warnings |-> result.value.warnings,
          hazardsHit |-> result.value.hazardsHit, threw |-> FALSE]
    ELSE [score |-> 100, warnings |-> << >>, hazardsHit |-> << >>, threw |-> FALSE]

\* The locals of scoreRoute; threw is set when a statement raised TypeError.
InitialLocals == [score |-> 100, warnings |-> << >>, hazardsHit |-> << >>, threw |-> FALSE]

\* The warning with Math.floor in place of Math.round.
HazardWarningFloor(hazard, distance) ==
  [ id |-> hazard.id, text |-> hazard.label, note |-> hazard.note,
    type |-> hazard.type, severity |-> hazard.severity,
    distance |-> distance \div 10 ]

HazardWarning(hazard, distance) ==
  [ id |-> hazard.id, text |-> hazard.label, note |-> hazard.note,
    type |-> hazard.type, severity |-> hazard.severity,
    distance |-> MathRound(distance) ]

\* The iteration that records every hit hazard, penalised or not.
HazardStepUnguarded(acc, profile, hazard, res) ==
  IF ~res.hit
    THEN acc
    ELSE IF profile.kind # "profile"
           THEN [acc EXCEPT !.threw = TRUE]
           ELSE [acc EXCEPT !.score = @ - PenaltyOf(profile, hazard),
                            !.hazardsHit = Append(@, hazard),
                            !.warnings = Append(@, HazardWarning(hazard, res.distance))]

\* The iteration that skips a hazard whose affects does not list the
\* active profile.
HazardStepGated(acc, profile, hazard, res) ==
  IF ~res.hit \/ profileId \notin hazard.affects
    THEN acc
    ELSE IF profile.kind # "profile"
           THEN [acc EXCEPT !.threw = TRUE]
           ELSE LET penalty == PenaltyOf(profile, hazard)
                IN  IF penalty > 0
                      THEN [acc EXCEPT !.score = @ - penalty,
                                       !.hazardsHit = Append(@, hazard),
                                       !.warnings = Append(@, HazardWarning(hazard, res.distance))]
                      ELSE acc

\* One iteration of the hazard loop.  Reading profile.penalties[...] of a
\* value that has no penalties raises TypeError, which ends the call.
HazardStep(acc, profile, hazard, res) ==
  IF ~res.hit
    THEN acc
    ELSE IF profile.kind # "profile"
           THEN [acc EXCEPT !.threw = TRUE]
           ELSE LET penalty == PenaltyOf(profile, hazard)
                IN  IF penalty > 0
                      THEN [acc EXCEPT !.score = @ - penalty,
                                       !.hazardsHit = Append(@, hazard),
                                       !.warnings = Append(@, HazardWarning(hazard, res.distance))]
                      ELSE acc

RECURSIVE HazardLoop(_, _, _, _, _)
HazardLoop(acc, coords, profile, hs, i) ==
  IF i > Len(hs) \/ acc.threw
    THEN acc
    ELSE HazardLoop(HazardStep(acc, profile, hs[i], routePassesNear(coords, hs[i])),
                    coords, profile, hs, i + 1)

\* The note without its fallback.
BarrierNoteRaw(barrier) == barrier.description

\* barrier.description || 'No details provided'
BarrierNote(barrier) ==
  IF barrier.description = undefined \/ barrier.description = ""
    THEN "No details provided"
    ELSE barrier.description

BarrierWarning(barrier, distance) ==
  [ id |-> "barrier-" \o ToString(barrier.time),
    text |-> "User-reported barrier nearby",
    note |-> BarrierNote(barrier),
    type |-> "barrier", severity |-> "medium",
    distance |-> MathRound(distance) ]

\* One iteration of the barrier loop.
BarrierStep(acc, barrier, res) ==
  IF res.hit
    THEN [acc EXCEPT !.score = @ - BARRIER_PENALTY,
                     !.warnings = Append(@, BarrierWarning(barrier, res.distance))]
    ELSE acc

RECURSIVE BarrierLoop(_, _, _, _)
BarrierLoop(acc, coords, bs, i) ==
  IF i > Len(bs)
    THEN acc
    ELSE LET barrierAsHazard == [lat |-> bs[i].lat, lng |-> bs[i].lng, radius |-> BARRIER_RADIUS]
         IN  BarrierLoop(BarrierStep(acc, bs[i], routePassesNear(coords, barrierAsHazard)),
                         coords, bs, i + 1)

\* The clamp without its lower bound.
ClampNoFloor(score) == Min(100, score)

\* Math.max(0, Math.min(100, score))
Clamp(score) == Max(0, Min(100, score))

\* The classification with > in place of >=.
LevelStrict(score) ==
  IF score > 80 THEN "high" ELSE IF score > 50 THEN "medium" ELSE "low"

Level(score) ==
  IF score >= 80 THEN "high" ELSE IF score >= 50 THEN "medium" ELSE "low"

Color(score) ==
  IF score >= 80 THEN "#4caf50" ELSE IF score >= 50 THEN "#ff9800" ELSE "#f44336"

severityOrder == [high |-> 0, medium |-> 1, low |-> 2]

\* severityOrder[severity] || 2: undefined and 0 are both falsy.
SeverityRank(severity) ==
  IF severity \in DOMAIN severityOrder /\ severityOrder[severity] # 0
    THEN severityOrder[severity]
    ELSE 2

\* The comparator given to warnings.sort.
Compare(a, b) == SeverityRank(a.severity) - SeverityRank(b.severity)

\* An insertion that puts an element before the elements it ties with.
RECURSIVE InsertSortedUnstable(_, _)
InsertSortedUnstable(sorted, w) ==
  IF sorted = << >>
    THEN << w >>
    ELSE IF Compare(Head(sorted), w) < 0
           THEN << Head(sorted) >> \o InsertSortedUnstable(Tail(sorted), w)
           ELSE << w >> \o sorted

\* Array.prototype.sort is stable: an element goes after every element that
\* does not compare greater than it.
RECURSIVE InsertSorted(_, _)
InsertSorted(sorted, w) ==
  IF sorted = << >>
    THEN << w >>
    ELSE IF Compare(Head(sorted), w) <= 0
           THEN << Head(sorted) >> \o InsertSorted(Tail(sorted), w)
           ELSE << w >> \o sorted

RECURSIVE Sort(_)
Sort(ws) ==
  IF ws = << >>
    THEN << >>
    ELSE InsertSorted(Sort(SubSeq(ws, 1, Len(ws) - 1)), ws[Len(ws)])

\* scoreRoute(routeCoords, profileId, hazards, barriers, profiles): what the
\* call returns, or that it threw.
scoreRoute(coords, id, hs, bs, table) ==
  LET profile == GetProfile(table, id)
  IN  IF IsFalsy(profile)
        THEN [kind |-> "return", value |-> UnknownProfileResult(id)]
        ELSE LET afterHazards == HazardLoop(InitialLocals, coords, profile, hs, 1)
             IN  IF afterHazards.threw
                   THEN [kind |-> "throw", error |-> "TypeError"]
                   ELSE LET acc   == BarrierLoop(afterHazards, coords, bs, 1)
                            score == Clamp(acc.score)
                        IN  [ kind |-> "return",
                              value |-> [ score |-> score,
                                          level |-> Level(score),
                                          color |-> Color(score),
                                          warnings |-> Sort(acc.warnings),
                                          hazardsHit |-> acc.hazardsHit ] ]

\* A call that sorts the hazards it was given in place.
ArgumentsAfterSortingHazards(coords, id, hs, bs, table) ==
  << coords, id, Sort(hs), bs, table >>

\* The arguments as a call of scoreRoute leaves them: the function assigns
\* to its locals only (score, warnings, hazardsHit, level, color), pushes to
\* and sorts its own arrays, and writes to no parameter or element of one.
ArgumentsAfter(coords, id, hs, bs, table) == << coords, id, hs, bs, table >>

(***************************************************************************)
(* The calls                                                               *)
(***************************************************************************)
\* The profile tables a caller passes, each with the ids tried against it.
ProfileInputs ==
  { <<ACCESSIBILITY_PROFILES, id>> : id \in ProfileIds \ {"custom"} }
    \cup { <<CALLER_PROFILES, id>> : id \in {"custom", "step-free"} }

NoResult == [kind |-> "none"]

null == [kind |-> "null"]

\* The page as the DOMContentLoaded handler leaves it, with no click made.
PageLoaded ==
  /\ startPoint = null
  /\ endPoint = null
  /\ startMarker = null
  /\ endMarker = null
  /\ routeLayer = null
  /\ reportingMode = FALSE
  /\ pending = 0
  /\ status = ""
  /\ routeInfo = "hidden"

Init ==
  /\ routeCoords \in SeqsUpTo(Vertices, MaxRoute)
  /\ hazards \in DistinctSeqsUpTo(HazardPool, MaxHazards)
  /\ barriers \in DistinctSeqsUpTo(BarrierPool, MaxBarriers)
  /\ \E pi \in ProfileInputs : profiles = pi[1] /\ profileId = pi[2]
  /\ pc = "idle"
  /\ result = NoResult
  /\ near = NoResult
  /\ firstResult = NoResult
  /\ PageLoaded

\* A call of AccessibilityScorer.scoreRoute with the inputs at hand.
ScoreRoute ==
  /\ pc = "idle"
  /\ result' = scoreRoute(routeCoords, profileId, hazards, barriers, profiles)
  /\ LET after == ArgumentsAfter(routeCoords, profileId, hazards, barriers, profiles)
     IN  /\ routeCoords' = after[1]
         /\ profileId' = after[2]
         /\ hazards' = after[3]
         /\ barriers' = after[4]
         /\ profiles' = after[5]
  /\ pc' = "scored"
  /\ UNCHANGED <<near, firstResult, uiVars>>

\* A call of AccessibilityScorer.routePassesNear on a hazard of the catalogue.
NearHazard ==
  /\ pc = "idle"
  /\ \E i \in DOMAIN hazards :
       near' = [ kind |-> "return", center |-> hazards[i].lat, radius |-> hazards[i].radius,
                 value |-> routePassesNear(routeCoords, hazards[i]) ]
  /\ pc' = "probed"
  /\ UNCHANGED <<inputs, result, firstResult, uiVars>>

\* A call of AccessibilityScorer.routePassesNear on a barrier, as scoreRoute
\* makes it.
NearBarrier ==
  /\ pc = "idle"
  /\ \E j \in DOMAIN barriers :
       near' = [ kind |-> "return", center |-> barriers[j].lat, radius |-> BARRIER_RADIUS,
                 value |-> routePassesNear(routeCoords,
                             [lat |-> barriers[j].lat, lng |-> barriers[j].lng,
                              radius |-> BARRIER_RADIUS]) ]
  /\ pc' = "probed"
  /\ UNCHANGED <<inputs, result, firstResult, uiVars>>

Next == ScoreRoute \/ NearHazard \/ NearBarrier

Spec == Init /\ [][Next]_vars

(***************************************************************************)
(* Calls in sequence, on the same hazard list, barrier list and profile    *)
(* table (the page passes the same objects to every call)                  *)
(***************************************************************************)
InitCalls ==
  /\ routeCoords \in SeqsUpTo(Vertices, 1)
  /\ hazards \in DistinctSeqsUpTo(HazardPool, MaxHazards)
  /\ barriers \in DistinctSeqsUpTo(BarrierPool, 1)
  /\ \E pi \in ProfileInputs : profiles = pi[1] /\ profileId = pi[2]
  /\ pc = "idle"
  /\ result = NoResult
  /\ near = NoResult
  /\ firstResult = NoResult
  /\ PageLoaded

\* After the first call, a call with another route and another profile id.
ScoreOther ==
  /\ pc = "scored"
  /\ \E coords \in SeqsUpTo(Vertices, 1), id \in ProfileIds :
       LET after == ArgumentsAfter(coords, id, hazards, barriers, profiles)
       IN  /\ result' = scoreRoute(coords, id, hazards, barriers, profiles)
           /\ hazards' = after[3]
           /\ barriers' = after[4]
           /\ profiles' = after[5]
  /\ firstResult' = result
  /\ pc' = "between"
  /\ UNCHANGED <<routeCoords, profileId, near, uiVars>>

\* The first call made once more, at once or after the other call.
ScoreAgain ==
  /\ pc \in {"scored", "between"}
  /\ result' = scoreRoute(routeCoords, profileId, hazards, barriers, profiles)
  /\ LET after == ArgumentsAfter(routeCoords, profileId, hazards, barriers, profiles)
     IN  /\ routeCoords' = after[1]
         /\ profileId' = after[2]
         /\ hazards' = after[3]
         /\ barriers' = after[4]
         /\ profiles' = after[5]
  /\ firstResult' = IF pc = "scored" THEN result ELSE firstResult
  /\ pc' = IF pc = "scored" THEN "again" ELSE "againAfterOther"
  /\ UNCHANGED <<near, uiVars>>

NextCalls == ScoreRoute \/ ScoreOther \/ ScoreAgain

SpecCalls == InitCalls /\ [][NextCalls]_vars

(***************************************************************************)
(* The map page (map.js): one action for each event handler.  The markers  *)
(* of barrierLayer are one for each element of barriers, and the texts     *)
(* that updateUI writes follow from startPoint and endPoint; neither is    *)
(* held as a variable of its own.                                          *)
(***************************************************************************)
\* window.ACCESSIBILITY_HAZARDS: the catalogue records of the model, in
\* catalogue order.
HazardWithId(id) == CHOOSE h \in HazardPool : h.id = id

ACCESSIBILITY_HAZARDS ==
  << HazardWithId("steps-main-quad"), HazardWithId("steps-west-wing"),
     HazardWithId("gravel-presidents-garden"), HazardWithId("kerb-western-road") >>

\* e.latlng of a click on the map.
ClickSites == { [lat |-> 50, lng |-> 0], [lat |-> 595, lng |-> 0] }

\* Date.now() at a click.
Timestamps == { 1001, 1002 }

\* path.points.coordinates of a routing response.
ProvidedRoutes == { << <<0, 0>>, <<0, 150>> >>, << <<0, 400>> >> }

\* The values of the profile selector.
SelectorValues == DOMAIN ACCESSIBILITY_PROFILES

InitUI ==
  /\ routeCoords = << >>
  /\ profileId = "step-free"
  /\ hazards = ACCESSIBILITY_HAZARDS
  /\ barriers = << >>
  /\ profiles = ACCESSIBILITY_PROFILES
  /\ pc = "page"
  /\ result = NoResult
  /\ near = NoResult
  /\ firstResult = NoResult
  /\ PageLoaded

scorerVars == <<pc, near, firstResult, hazards, profiles>>

\* profileSelect 'change'
ProfileChange ==
  /\ \E v \in SelectorValues : profileId' = v
  /\ UNCHANGED <<routeCoords, barriers, result, scorerVars, uiVars>>

\* reportBtn 'click'
ReportClick ==
  /\ reportingMode' = TRUE
  /\ status' = "Click the map to place a barrier"
  /\ UNCHANGED <<inputs, result, pc, near, firstResult, startPoint, endPoint,
                 startMarker, endMarker, routeLayer, pending, routeInfo>>

\* barriers.unshift in place of barriers.push.
PushBarrierFirst(list, latlng, now) ==
  << [lat |-> latlng.lat, lng |-> latlng.lng, time |-> now, description |-> ""] >> \o list

\* barriers.push({ lat, lng, time: Date.now(), description: '' })
PushBarrier(list, latlng, now) ==
  Append(list, [lat |-> latlng.lat, lng |-> latlng.lng, time |-> now, description |-> ""])

\* map 'click' while reportingMode is on
MapClickReporting(latlng, now) ==
  /\ reportingMode
  /\ Len(barriers) < MaxBarriers
  /\ barriers' = PushBarrier(barriers, latlng, now)
  /\ reportingMode' = FALSE
  /\ status' = ""
  /\ UNCHANGED <<routeCoords, profileId, result, scorerVars, startPoint, endPoint,
                 startMarker, endMarker, routeLayer, pending, routeInfo>>

\* map 'click' while reportingMode is off: the start point, then the end
\* point, then a restart from a new start point.
MapClickSelecting(latlng) ==
  /\ ~reportingMode
  /\ IF startPoint = null
       THEN /\ startPoint' = latlng
            /\ startMarker' = latlng
            /\ UNCHANGED <<endPoint, endMarker, routeLayer, routeInfo>>
       ELSE IF endPoint = null
              THEN /\ endPoint' = latlng
                   /\ endMarker' = latlng
                   /\ UNCHANGED <<startPoint, startMarker, routeLayer, routeInfo>>
              ELSE /\ startPoint' = latlng
                   /\ endPoint' = null
                   /\ startMarker' = latlng
                   /\ endMarker' = null
                   /\ routeLayer' = null
                   /\ routeInfo' = "hidden"
  /\ status' = ""
  /\ UNCHANGED <<inputs, result, pc, near, firstResult, reportingMode, pending>>

\* routeBtn 'click': calculateAndDisplayRoute up to its await.
RouteClick ==
  /\ startPoint # null
  /\ endPoint # null
  /\ pending < MaxPending
  /\ status' = "Calculating route..."
  /\ pending' = pending + 1
  /\ UNCHANGED <<inputs, result, pc, near, firstResult, startPoint, endPoint,
                 startMarker, endMarker, routeLayer, reportingMode, routeInfo>>

\* calculateAndDisplayRoute after its await, getRoute having given a route:
\* the old layer leaves the map, the route is scored with the active profile
\* and the barriers of this moment, and is drawn in the color of its score.
RouteResponse(coords) ==
  /\ pending > 0
  /\ pending' = pending - 1
  /\ LET scoring == scoreRoute(coords, profileId, hazards, barriers, profiles)
         after   == ArgumentsAfter(coords, profileId, hazards, barriers, profiles)
     IN  /\ routeCoords' = after[1]
         /\ profileId' = after[2]
         /\ hazards' = after[3]
         /\ barriers' = after[4]
         /\ profiles' = after[5]
         /\ result' = scoring
         /\ IF scoring.kind = "return"
              THEN /\ routeLayer' = [kind |-> "layer", color |-> scoring.value.color,
                                     onMap |-> TRUE]
                   /\ routeInfo' = "visible"
                   /\ status' = ""
              ELSE /\ routeLayer' = IF routeLayer = null THEN null
                                    ELSE [routeLayer EXCEPT !.onMap = FALSE]
                   /\ status' = "Error: " \o scoring.error
                   /\ UNCHANGED routeInfo
  /\ UNCHANGED <<pc, near, firstResult, startPoint, endPoint, startMarker, endMarker,
                 reportingMode>>

\* calculateAndDisplayRoute after its await, getRoute having thrown.
RouteFailure ==
  /\ pending > 0
  /\ pending' = pending - 1
  /\ status' = "Error: Routing failed"
  /\ UNCHANGED <<inputs, result, pc, near, firstResult, startPoint, endPoint,
                 startMarker, endMarker, routeLayer, reportingMode, routeInfo>>

\* clearBtn 'click'
ClearClick ==
  /\ startPoint' = null
  /\ endPoint' = null
  /\ startMarker' = null
  /\ endMarker' = null
  /\ routeLayer' = null
  /\ barriers' = << >>
  /\ reportingMode' = FALSE
  /\ routeInfo' = "hidden"
  /\ status' = ""
  /\ UNCHANGED <<routeCoords, profileId, result, scorerVars, pending>>

MapClick ==
  \E latlng \in ClickSites :
    \/ \E now \in Timestamps : MapClickReporting(latlng, now)
    \/ MapClickSelecting(latlng)

NextUI ==
  \/ ProfileChange
  \/ ReportClick
  \/ MapClick
  \/ RouteClick
  \/ \E coords \in ProvidedRoutes : RouteResponse(coords)
  \/ RouteFailure
  \/ ClearClick

SpecUI == InitUI /\ [][NextUI]_vars

(***************************************************************************)
(* What the claims speak of                                                *)
(***************************************************************************)
\* scoreRoute was called and returned a result.
Returned == pc = "scored" /\ result.kind = "return"

\* The profile id is a key of the profile table.
KnownProfile == profileId \in DOMAIN profiles

\* Some vertex of the route lies within radius metres of the latitude.
VertexWithin(lat, radius) ==
  \E i \in DOMAIN routeCoords : Abs(routeCoords[i][2] - lat) <= radius * 10

\* The distance of the first vertex, in route order, within the radius.
MatchedDistance(lat, radius) ==
  LET first == CHOOSE i \in DOMAIN routeCoords :
                 /\ Abs(routeCoords[i][2] - lat) <= radius * 10
                 /\ \A j \in 1..(i - 1) : Abs(routeCoords[j][2] - lat) > radius * 10
  IN  Abs(routeCoords[first][2] - lat)

\* The cell of the active profile's table for the hazard, 0 without one.
TableEntry(h) ==
  LET t == profiles[profileId].penalties
  IN  IF h.type \in DOMAIN t /\ h.severity \in DOMAIN t[h.type]
        THEN t[h.type][h.severity]
        ELSE 0

HazardHit(h) == VertexWithin(h.lat, h.radius)

BarrierHit(b) == VertexWithin(b.lat, 20)

\* The hazards that are hit and penalised, as indices of the catalogue.
Penalised == { i \in DOMAIN hazards : HazardHit(hazards[i]) /\ TableEntry(hazards[i]) > 0 }

HitBarriers == { j \in DOMAIN barriers : BarrierHit(barriers[j]) }

RECURSIVE SumOver(_, _)
SumOver(S, f) ==
  IF S = {} THEN 0 ELSE LET x == CHOOSE y \in S : TRUE IN f[x] + SumOver(S \ {x}, f)

HazardPenalties == SumOver(Penalised, [i \in DOMAIN hazards |-> TableEntry(hazards[i])])

AppliedPenalties == HazardPenalties + 15 * Cardinality(HitBarriers)

ClampTo0And100(x) == IF x < 0 THEN 0 ELSE IF x > 100 THEN 100 ELSE x

\* The severity rank of the specification: high 0, medium 1, low and the rest 2.
SpecRank(severity) ==
  IF severity = "high" THEN 0 ELSE IF severity = "medium" THEN 1 ELSE 2

\* The warning the specification describes for a hazard and for a barrier.
ExpectedHazardWarning(h) ==
  [ id |-> h.id, text |-> h.label, note |-> h.note, type |-> h.type,
    severity |-> h.severity,
    distance |-> (MatchedDistance(h.lat, h.radius) + 5) \div 10 ]

ExpectedBarrierWarning(b) ==
  [ id |-> "barrier-" \o ToString(b.time),
    text |-> "User-reported barrier nearby",
    note |-> IF b.description \in {undefined, ""} THEN "No details provided"
                                                  ELSE b.description,
    type |-> "barrier", severity |-> "medium",
    distance |-> (MatchedDistance(b.lat, 20) + 5) \div 10 ]

\* The position of a warning in the order of evaluation: the hazards in
\* catalogue order, then the barriers in list order.
EvalIndex(w) ==
  IF w.type = "barrier"
    THEN Len(hazards)
           + (CHOOSE j \in DOMAIN barriers : w.id = "barrier-" \o ToString(barriers[j].time))
    ELSE CHOOSE i \in DOMAIN hazards : w.id = hazards[i].id

RemoveAt(s, i) == SubSeq(s, 1, i - 1) \o SubSeq(s, i + 1, Len(s))

(***************************************************************************)
(* The claims                                                              *)
(***************************************************************************)
\* C1: a call of scoreRoute with a profile id that is a key of profiles
\* returns, and the score it returns is 100 minus the sum of the applied
\* penalties (the table penalty of every hit hazard with penalty > 0, plus 15
\* for every hit barrier), clamped to [0,100]; so 0 <= score <= 100.
C1_ScoreIsClampedSum ==
  (pc = "scored" /\ KnownProfile) =>
    /\ result.kind = "return"
    /\ result.value.score = ClampTo0And100(100 - AppliedPenalties)
    /\ result.value.score >= 0
    /\ result.value.score <= 100

\* A call where hazards and a barrier are penalised and the sum passes 100,
\* so that the clamp acts.
C1_Witness ==
  /\ Returned
  /\ KnownProfile
  /\ Penalised # {}
  /\ HitBarriers # {}
  /\ AppliedPenalties > 100
  /\ result.value.score = 0

\* C2: with a profile id that is no key of profiles, scoreRoute returns the
\* sentinel: score -1, level 'unknown', neutral gray, one low-severity warning
\* naming the profile and an empty hazardsHit, whatever the other inputs are.
C2_UnknownProfileSentinel ==
  (pc = "scored" /\ ~KnownProfile) =>
    /\ result.kind = "return"
    /\ result.value.score = -1
    /\ result.value.level = "unknown"
    /\ result.value.color = "#9e9e9e"
    /\ Len(result.value.warnings) = 1
    /\ result.value.warnings[1].severity = "low"
    /\ result.value.warnings[1].text = "Unknown profile: " \o profileId
    /\ result.value.hazardsHit = << >>

\* C3: for a known profile the returned warnings are in ascending order of
\* the severity rank high = 0, medium = 1, low = 2 (any other severity 2):
\* every high warning precedes every medium one, every medium every low one.
C3_WarningsAscendBySeverity ==
  (Returned /\ KnownProfile) =>
    \A i, j \in DOMAIN result.value.warnings :
      i < j => SpecRank(result.value.warnings[i].severity)
                 <= SpecRank(result.value.warnings[j].severity)

\* C4: for a known profile level and color follow from the score alone:
\* score >= 80 is 'high' and green, 50 <= score < 80 is 'medium' and orange,
\* score < 50 is 'low' and red.
C4_LevelAndColorFollowScore ==
  (Returned /\ KnownProfile) =>
    LET v == result.value
    IN  /\ v.score >= 80 => (v.level = "high" /\ v.color = "#4caf50")
        /\ (v.score >= 50 /\ v.score < 80) => (v.level = "medium" /\ v.color = "#ff9800")
        /\ v.score < 50 => (v.level = "low" /\ v.color = "#f44336")
        /\ (v.level = "high")   <=> (v.color = "#4caf50")
        /\ (v.level = "medium") <=> (v.color = "#ff9800")
        /\ (v.level = "low")    <=> (v.color = "#f44336")

\* A call that returns the score 80, the lowest score of level 'high'.
C4_Witness ==
  /\ Returned
  /\ KnownProfile
  /\ result.value.score = 80
  /\ result.value.level = "high"

\* C5: the penalty applied to a hit hazard is the active profile's table cell
\* for (type, severity), 0 without one: with one hazard hit and no barrier hit
\* the score is 100 minus that cell; and with the shipped tables, profile
\* 'step-free' and one hit hazard of type 'steps', severity 'high', the score
\* is 50, the level 'medium', and the one warning carries the hazard's id.
C5_PenaltyIsTableEntry ==
  (Returned /\ KnownProfile /\ HitBarriers = {}) =>
    \A i \in DOMAIN hazards :
      ({ k \in DOMAIN hazards : HazardHit(hazards[k]) } = {i}) =>
        /\ result.value.score = 100 - TableEntry(hazards[i])
        /\ ( /\ profiles = ACCESSIBILITY_PROFILES
             /\ profileId = "step-free"
             /\ hazards[i].type = "steps"
             /\ hazards[i].severity = "high" ) =>
               /\ result.value.score = 50
               /\ result.value.level = "medium"
               /\ Len(result.value.warnings) = 1
               /\ result.value.warnings[1].id = hazards[i].id

\* The shipped case: profile 'step-free', one hazard hit, of type 'steps' and
\* severity 'high', next to a hazard that is not hit.
C5_Witness ==
  /\ Returned
  /\ profiles = ACCESSIBILITY_PROFILES
  /\ profileId = "step-free"
  /\ HitBarriers = {}
  /\ Len(hazards) = 2
  /\ \E i \in DOMAIN hazards :
       /\ { k \in DOMAIN hazards : HazardHit(hazards[k]) } = {i}
       /\ hazards[i].type = "steps"
       /\ hazards[i].severity = "high"
  /\ result.value.score = 50

\* C6: a hazard that the route hits and whose penalty under the active profile
\* is 0 leaves the result as it is without that hazard in the catalogue, and
\* it is neither in hazardsHit nor named by a warning.
C6_ZeroPenaltyHazardIsInert ==
  (Returned /\ KnownProfile) =>
    \A i \in DOMAIN hazards :
      (HazardHit(hazards[i]) /\ TableEntry(hazards[i]) = 0) =>
        /\ result = scoreRoute(routeCoords, profileId, RemoveAt(hazards, i),
                               barriers, profiles)
        /\ \A k \in DOMAIN result.value.hazardsHit :
             result.value.hazardsHit[k] # hazards[i]
        /\ \A k \in DOMAIN result.value.warnings :
             result.value.warnings[k].id # hazards[i].id

\* A call where a hit hazard has penalty 0 while another hazard and a barrier
\* are penalised.
C6_Witness ==
  /\ Returned
  /\ KnownProfile
  /\ \E i \in DOMAIN hazards : HazardHit(hazards[i]) /\ TableEntry(hazards[i]) = 0
  /\ Penalised # {}
  /\ HitBarriers # {}
  /\ Len(result.value.warnings) = 2

\* C7: for a known profile hazardsHit is the sub-sequence, in catalogue order,
\* of the hazards that are hit with a penalty > 0; each of them has exactly
\* one warning, with its id, label, note, type, severity and the rounded
\* matched distance, and the other hazards have none.
C7_HazardsHitAndTheirWarnings ==
  (Returned /\ KnownProfile) =>
    LET hw == SelectSeq(result.value.warnings, LAMBDA w : w.type # "barrier")
    IN  /\ result.value.hazardsHit =
             SelectSeq(hazards, LAMBDA h : HazardHit(h) /\ TableEntry(h) > 0)
        /\ Len(hw) = Cardinality(Penalised)
        /\ { hw[k] : k \in DOMAIN hw } =
             { ExpectedHazardWarning(hazards[i]) : i \in Penalised }

\* A call where two hazards are penalised, one of them at a distance that is
\* rounded up.
C7_Witness ==
  /\ Returned
  /\ KnownProfile
  /\ Len(result.value.hazardsHit) = 2
  /\ \E i \in Penalised : MatchedDistance(hazards[i].lat, hazards[i].radius) = 75
  /\ \E k \in DOMAIN result.value.warnings : result.value.warnings[k].distance = 8

\* C8: for a known profile every barrier with a route vertex within 20 m
\* takes 15 points, the same for every profile, and adds one warning of type
\* 'barrier', severity 'medium', id 'barrier-' and the report time, note the
\* description or 'No details provided'; a barrier that is not hit adds
\* nothing; one hit barrier and no hazard hit give the score 85.
C8_BarrierPenaltyAndWarning ==
  (Returned /\ KnownProfile) =>
    LET bw == SelectSeq(result.value.warnings, LAMBDA w : w.type = "barrier")
        hb == SelectSeq(barriers, BarrierHit)
    IN  /\ result.value.score =
             ClampTo0And100(100 - HazardPenalties - 15 * Len(hb))
        /\ bw = [k \in DOMAIN hb |-> ExpectedBarrierWarning(hb[k])]
        /\ (Len(hb) = 1 /\ Penalised = {}) => result.value.score = 85

\* A call with two barriers, one hit and one not, and no hazard penalised.
C8_Witness ==
  /\ Returned
  /\ KnownProfile
  /\ Len(barriers) = 2
  /\ Cardinality(HitBarriers) = 1
  /\ Penalised = {}
  /\ result.value.score = 85
  /\ Len(result.value.warnings) = 1
  /\ result.value.warnings[1].note = "No details provided"

\* C9: for a non-empty route routePassesNear returns hit = true exactly when
\* some vertex is at a distance <= radius from the center, and when it returns
\* hit = false the distance it returns is the minimum over the vertices.
C9_HitIffVertexWithinRadius ==
  (pc = "probed" /\ routeCoords # << >>) =>
    LET d(i) == Abs(routeCoords[i][2] - near.center)
    IN  /\ near.value.hit <=> \E i \in DOMAIN routeCoords : d(i) <= near.radius * 10
        /\ ~near.value.hit =>
             /\ \E i \in DOMAIN routeCoords : d(i) = near.value.distance
             /\ \A i \in DOMAIN routeCoords : d(i) >= near.value.distance

\* A miss on a route of two vertices, the second the nearer one.
C9_Witness ==
  /\ pc = "probed"
  /\ Len(routeCoords) = 2
  /\ ~near.value.hit
  /\ Abs(routeCoords[2][2] - near.center) < Abs(routeCoords[1][2] - near.center)
  /\ near.value.distance = Abs(routeCoords[2][2] - near.center)

\* C10: the sort of the warnings is stable: two returned warnings of the same
\* severity rank are in the order of their evaluation, the hazards in
\* catalogue order and then the barriers in list order.
C10_SortIsStable ==
  (Returned /\ KnownProfile) =>
    LET ws == result.value.warnings
    IN  \A i, j \in DOMAIN ws :
          ( /\ i < j
            /\ \/ SpecRank(ws[i].severity) = SpecRank(ws[j].severity)
               \/ SeverityRank(ws[i].severity) = SeverityRank(ws[j].severity) )
            => EvalIndex(ws[i]) < EvalIndex(ws[j])

\* A call where the sort moved a warning forward and left ties of hazards and
\* of barriers in place.
C10_Witness ==
  /\ Returned
  /\ KnownProfile
  /\ LET ws == result.value.warnings
     IN  /\ Len(ws) = 4
         /\ ws[1].type = "barrier"
         /\ ws[2].type = "barrier"
         /\ ws[3].type # "barrier"
         /\ EvalIndex(ws[1]) < EvalIndex(ws[2])
         /\ EvalIndex(ws[3]) < EvalIndex(ws[4])

C13_FailsExactlyOnEmptyRoute ==
  (pc = "probed") => ((routeCoords = << >>) <=> (near.kind # "return"))

\* C13, amended: routePassesNear fails on no route.  On an empty route it
\* returns hit = false with the distance Infinity (there is no minimum), and
\* scoreRoute with a known profile then returns the score 100 and no warning;
\* on a non-empty route it returns a distance that is finite and >= 0.
C13_ReturnsOnEveryRoute ==
  /\ (pc = "probed") =>
       /\ near.kind = "return"
       /\ (routeCoords = << >>) =>
            (~near.value.hit /\ near.value.distance = Infinity)
       /\ (routeCoords # << >>) =>
            (near.value.distance >= 0 /\ near.value.distance < Infinity)
  /\ (pc = "scored" /\ KnownProfile /\ routeCoords = << >>) =>
       /\ result.kind = "return"
       /\ result.value.score = 100
       /\ result.value.warnings = << >>

\* A call of routePassesNear with an empty route.
C13_Witness ==
  /\ pc = "probed"
  /\ routeCoords = << >>
  /\ near.kind = "return"
  /\ ~near.value.hit
  /\ near.value.distance = Infinity

\* The hazard or barrier a returned warning is about, as a center and a
\* radius.
WarningZone(w) ==
  IF w.type = "barrier"
    THEN [lat |-> barriers[EvalIndex(w) - Len(hazards)].lat, radius |-> 20]
    ELSE [lat |-> hazards[EvalIndex(w)].lat, radius |-> hazards[EvalIndex(w)].radius]

\* The least distance of a vertex of the route from the latitude.
LeastDistance(lat) ==
  LET ds == { Abs(routeCoords[i][2] - lat) : i \in DOMAIN routeCoords }
  IN  CHOOSE x \in ds : \A y \in ds : x <= y

\* C14: when routePassesNear returns hit = true, the distance it returns is
\* that of the first vertex, in route order, within the radius; and the
\* distance of every warning is that value rounded to the metre.
C14_HitReportsFirstVertexWithin ==
  /\ (pc = "probed" /\ near.value.hit) =>
       near.value.distance = MatchedDistance(near.center, near.radius)
  /\ (Returned /\ KnownProfile) =>
       \A k \in DOMAIN result.value.warnings :
         LET z == WarningZone(result.value.warnings[k])
         IN  result.value.warnings[k].distance =
               (MatchedDistance(z.lat, z.radius) + 5) \div 10

\* A warning whose distance is that of the first vertex within the radius
\* while a later vertex is nearer.
C14_Witness ==
  /\ Returned
  /\ KnownProfile
  /\ \E k \in DOMAIN result.value.warnings :
       LET z == WarningZone(result.value.warnings[k])
       IN  /\ MatchedDistance(z.lat, z.radius) > LeastDistance(z.lat) + 10
           /\ result.value.warnings[k].distance =
                (MatchedDistance(z.lat, z.radius) + 5) \div 10

\* The sets of profile ids tried as the affects field of a hazard.
AffectsChoices ==
  { {}, {"wheelchair"}, {"step-free", "gentle-gradient", "low-energy", "custom"} }

\* Two outcomes of scoreRoute agree in all but the affects fields.
SameButAffects(r1, r2) ==
  /\ r1.kind = r2.kind
  /\ (r1.kind = "return") =>
       /\ r1.value.score = r2.value.score
       /\ r1.value.level = r2.value.level
       /\ r1.value.color = r2.value.color
       /\ r1.value.warnings = r2.value.warnings
       /\ Len(r1.value.hazardsHit) = Len(r2.value.hazardsHit)
       /\ \A k \in DOMAIN r1.value.hazardsHit :
            r1.value.hazardsHit[k].id = r2.value.hazardsHit[k].id

\* C15: the result of scoreRoute does not depend on the affects field of a
\* hazard: with the affects of one hazard, or of all, replaced by another
\* set, the call gives the same score, level, color and warnings and hits
\* the same hazards.
C15_AffectsIsNotRead ==
  (pc = "scored") =>
    \A A \in AffectsChoices :
      /\ SameButAffects(result,
            scoreRoute(routeCoords, profileId,
                       [i \in DOMAIN hazards |-> [hazards[i] EXCEPT !.affects = A]],
                       barriers, profiles))
      /\ \A i \in DOMAIN hazards :
           SameButAffects(result,
             scoreRoute(routeCoords, profileId,
                        [hazards EXCEPT ![i].affects = A], barriers, profiles))

\* A call that penalises a hazard whose affects does not list the active
\* profile.
C15_Witness ==
  /\ Returned
  /\ KnownProfile
  /\ \E i \in Penalised : profileId \notin hazards[i].affects
  /\ \E k \in DOMAIN result.value.hazardsHit :
       profileId \notin result.value.hazardsHit[k].affects

\* The list grew by one barrier, placed at a click site, at its end.
AppendedOne(before, after) ==
  /\ Len(after) = Len(before) + 1
  /\ SubSeq(after, 1, Len(before)) = before
  /\ \E latlng \in ClickSites, now \in Timestamps :
       after[Len(after)] = [lat |-> latlng.lat, lng |-> latlng.lng, time |-> now,
                            description |-> ""]

\* C16: on the map page the barrier list changes in two ways only: a map
\* click made while reporting mode is on appends exactly one barrier at the
\* end, turns reporting mode off and leaves the start and end point alone,
\* and a Clear click empties the list.  A step that starts or ends a route
\* calculation, scoring included, leaves the list as it was, and so does a
\* map click made while reporting mode is off.
C16_BarriersChangeByReportOrClear ==
  [][ /\ (barriers' # barriers) =>
           \/ /\ reportingMode
              /\ AppendedOne(barriers, barriers')
              /\ ~reportingMode'
              /\ startPoint' = startPoint
              /\ endPoint' = endPoint
           \/ /\ barriers' = << >>
              /\ startPoint' = null
              /\ endPoint' = null
      /\ (pending' # pending \/ result' # result) => barriers' = barriers
      /\ (~reportingMode /\ (startPoint' # startPoint \/ endPoint' # endPoint)
            /\ startPoint' # null) => barriers' = barriers
    ]_vars

\* Two barriers reported one after the other, the second at another place,
\* and a route scored afterwards that passes one of them, both points set.
C16_Witness ==
  /\ Len(barriers) = 2
  /\ barriers[1].lat # barriers[2].lat
  /\ ~reportingMode
  /\ startPoint # null
  /\ endPoint # null
  /\ result.kind = "return"
  /\ \E k \in DOMAIN result.value.warnings : result.value.warnings[k].type = "barrier"

\* A route layer is on the map.
RouteDisplayed == routeLayer # null /\ routeLayer.onMap

\* C17: a route layer, and the score panel, is displayed only while both the
\* start point and the end point are set, whatever the order of user events
\* and routing responses.
C17_RouteOnlyWithBothPoints ==
  (RouteDisplayed \/ routeInfo = "visible") => (startPoint # null /\ endPoint # null)

====
